---------------------------- MODULE Spec2Model ----------------------------
(***************************************************************************)
(* A model of the CloudWatch output plugin                                 *)
(* (plugins/outputs/cloudwatch/cloudwatch.go): value conversion, field     *)
(* classification, the per-metric accumulators and the datums they build,  *)
(* dimension selection, partitioning and the write loop.                   *)
(*                                                                         *)
(* Strings (field names, metric names, tag keys and values) are sequences  *)
(* of one-character strings, so that suffixes, joins and the byte order    *)
(* are computed as the code computes them.                                 *)
(* float64 values are NaN, an infinity, zero or a normalised decimal       *)
(* mant * 10^(exp-6) with a seven-digit mantissa.                          *)
(***************************************************************************)
EXTENDS Integers, Sequences, FiniteSets, Bags, TLC

VARIABLES
    \* BuildMetricDatum: its arguments, the accumulator map it filled and
    \* the datums it returned (as a bag: their order is a map's iteration order)
    \* and the number of calls made
    buildStatistic, highResolutionMetrics, point, fields, datums, pc, calls,
    \* BuildDimensions: its argument and its result
    mTags, dimensions, dpc,
    \* PartitionDatums: its arguments and its result
    psize, pdatums, partitions, ppc,
    \* CloudWatch.Write: the plugin's configuration, the metrics written,
    \* the datums built from them, the partitions, the loop index, the
    \* PutMetricData calls made so far with their results, and the error
    \* returned
    c, wmetrics, wdatums, wparts, wi, sent, werr, wpc

vars == <<buildStatistic, highResolutionMetrics, point, fields, datums, pc, calls,
          mTags, dimensions, dpc, psize, pdatums, partitions, ppc,
          c, wmetrics, wdatums, wparts, wi, sent, werr, wpc>>

aggVars == <<buildStatistic, highResolutionMetrics, point, fields, datums, pc, calls>>
dimVars == <<mTags, dimensions, dpc>>
partVars == <<psize, pdatums, partitions, ppc>>
writeVars == <<c, wmetrics, wdatums, wparts, wi, sent, werr, wpc>>

-----------------------------------------------------------------------------
(* Strings *)

\* The characters used, in byte order (digits < '_' < lower-case letters).
Alphabet == <<"0", "1", "2", "3", "4", "5", "6", "7", "8", "9", "_",
              "a", "b", "c", "d", "e", "f", "g", "h", "i", "j", "k", "l", "m",
              "n", "o", "p", "q", "r", "s", "t", "u", "v", "w", "x", "y", "z">>

OrdTable ==
    [ch \in {Alphabet[i] : i \in 1..Len(Alphabet)} |->
        CHOOSE i \in 1..Len(Alphabet) : Alphabet[i] = ch]

Ord(ch) == OrdTable[ch]

\* Go's string comparison a < b: byte-wise lexicographic.
RECURSIVE StrLess(_, _)
StrLess(a, b) ==
    IF b = <<>> THEN FALSE
    ELSE IF a = <<>> THEN TRUE
    ELSE IF Ord(Head(a)) # Ord(Head(b)) THEN Ord(Head(a)) < Ord(Head(b))
    ELSE StrLess(Tail(a), Tail(b))

EmptyString == <<>>

HasSuffix(s, suffix) ==
    /\ Len(s) >= Len(suffix)
    /\ SubSeq(s, Len(s) - Len(suffix) + 1, Len(s)) = suffix

TrimSuffix(s, suffix) ==
    IF HasSuffix(s, suffix) THEN SubSeq(s, 1, Len(s) - Len(suffix)) ELSE s

\* strings.Join(elems, "_")
RECURSIVE Join(_)
Join(elems) ==
    IF Len(elems) = 0 THEN <<>>
    ELSE IF Len(elems) = 1 THEN elems[1]
    ELSE elems[1] \o <<"_">> \o Join(Tail(elems))

\* All orders in which a map with key set S can be iterated.
RECURSIVE Orders(_)
Orders(S) ==
    IF S = {} THEN {<<>>}
    ELSE UNION {{<<k>> \o o : o \in Orders(S \ {k})} : k \in S}

-----------------------------------------------------------------------------
(* float64 and convert *)

NaN == [k |-> "nan"]
Inf(neg) == [k |-> "inf", neg |-> neg]
Zero == [k |-> "zero"]
Fin(neg, mant, exp) == [k |-> "fin", neg |-> neg, mant |-> mant, exp |-> exp]

RECURSIVE Pow10(_)
Pow10(n) == IF n = 0 THEN 1 ELSE 10 * Pow10(n - 1)

\* Number of decimal digits of n > 0, less one.
RECURSIVE Exp10(_)
Exp10(n) == IF n < 10 THEN 0 ELSE 1 + Exp10(n \div 10)

\* float64(t) for an integer t (exact below 10^7, which the inputs are).
FromInt(t) ==
    IF t = 0 THEN Zero
    ELSE LET a == IF t < 0 THEN -t ELSE t
             e == Exp10(a)
         IN  Fin(t < 0, a * Pow10(6 - e), e)

IsNaN(f) == f.k = "nan"
IsInf(f) == f.k = "inf"

\* a < b on float64; every comparison with NaN is false.
FloatLess(a, b) ==
    LET rank(f) == \* the sign class: negative, zero, positive
            IF f.k = "zero" THEN 0 ELSE IF f.neg THEN -1 ELSE 1
        magLess(f, g) == \* |f| < |g| for non-zero f, g of one sign
            IF f.k = "inf" THEN FALSE
            ELSE IF g.k = "inf" THEN TRUE
            ELSE f.exp < g.exp \/ (f.exp = g.exp /\ f.mant < g.mant)
    IN  IF IsNaN(a) \/ IsNaN(b) THEN FALSE
        ELSE IF rank(a) # rank(b) THEN rank(a) < rank(b)
        ELSE IF rank(a) = 0 THEN FALSE
        ELSE IF rank(a) = 1 THEN magLess(a, b)
        ELSE magLess(b, a)

\* float64(8.515920e-109) and float64(1.174271e+108)
MinPositive == Fin(FALSE, 8515920, -109)
MaxValue == Fin(FALSE, 1174271, 108)

SupportedTypes == {"int", "int32", "int64", "uint64", "float64", "bool", "time.Time"}

\* convert(v): (value, ok). A Go value is [t |-> type, v |-> payload]:
\* an integer for the integer types and time.Time (its Unix seconds),
\* a float for float64, a boolean for bool.
convert(v) ==
    IF v.t \notin SupportedTypes THEN [value |-> Zero, ok |-> FALSE]
    ELSE LET value ==
                 CASE v.t \in {"int", "int32", "int64", "uint64"} -> FromInt(v.v)
                   [] v.t = "float64" -> v.v
                   [] v.t = "bool" -> IF v.v THEN FromInt(1) ELSE FromInt(0)
                   [] v.t = "time.Time" -> FromInt(v.v)
         IN  IF IsNaN(value) THEN [value |-> Zero, ok |-> FALSE]
             ELSE IF IsInf(value) THEN [value |-> Zero, ok |-> FALSE]
             ELSE IF FloatLess(Zero, value) /\ FloatLess(value, MinPositive)
                  THEN [value |-> Zero, ok |-> FALSE]
             ELSE IF FloatLess(MaxValue, value) THEN [value |-> Zero, ok |-> FALSE]
             ELSE [value |-> value, ok |-> TRUE]

-----------------------------------------------------------------------------
(* statisticType and getStatisticType *)

statisticTypeNone == 0
statisticTypeMax == 1
statisticTypeMin == 2
statisticTypeSum == 3
statisticTypeCount == 4

s_max == <<"_", "m", "a", "x">>
s_min == <<"_", "m", "i", "n">>
s_sum == <<"_", "s", "u", "m">>
s_count == <<"_", "c", "o", "u", "n", "t">>

getStatisticType(name) ==
    CASE HasSuffix(name, s_max) ->
             [sType |-> statisticTypeMax, fieldName |-> TrimSuffix(name, s_max)]
      [] HasSuffix(name, s_min) ->
             [sType |-> statisticTypeMin, fieldName |-> TrimSuffix(name, s_min)]
      [] HasSuffix(name, s_sum) ->
             [sType |-> statisticTypeSum, fieldName |-> TrimSuffix(name, s_sum)]
      [] HasSuffix(name, s_count) ->
             [sType |-> statisticTypeCount, fieldName |-> TrimSuffix(name, s_count)]
      [] OTHER -> [sType |-> statisticTypeNone, fieldName |-> name]

-----------------------------------------------------------------------------
(* Maps, pointers *)

EmptyMap == <<>>

\* m[k] = v
Put(m, k, v) == [x \in (DOMAIN m) \cup {k} |-> IF x = k THEN v ELSE m[x]]

\* A pointer field of a struct: Nil, or Ptr(v) pointing at v.
Nil == <<>>
Ptr(v) == <<v>>

\* Some one iteration order of a map with key set S.
RECURSIVE SomeOrder(_)
SomeOrder(S) ==
    IF S = {} THEN <<>>
    ELSE LET k == CHOOSE x \in S : TRUE IN <<k>> \o SomeOrder(S \ {k})

RECURSIVE SeqToBag(_)
SeqToBag(s) ==
    IF s = <<>> THEN EmptyBag ELSE SetToBag({Head(s)}) (+) SeqToBag(Tail(s))

-----------------------------------------------------------------------------
(* BuildDimensions *)

host == <<"h", "o", "s", "t">>

MaxDimensions == 10

\* sort.Strings(keys): an insertion sort by StrLess.
RECURSIVE Insert(_, _)
Insert(sorted, k) ==
    IF sorted = <<>> THEN <<k>>
    ELSE IF StrLess(k, Head(sorted)) THEN <<k>> \o sorted
    ELSE <<Head(sorted)>> \o Insert(Tail(sorted), k)

\* The keys left in the order the map gave them.
SortStrings_Unsorted(keys) == keys

RECURSIVE SortStrings(_)
SortStrings(keys) ==
    IF keys = <<>> THEN <<>>
    ELSE Insert(SortStrings(Tail(keys)), Head(keys))

\* The host dimension, appended whenever the "host" key exists.
HostDimension(tags) ==
    IF host \in DOMAIN tags
    THEN <<[Name |-> host, Value |-> tags[host]]>>
    ELSE <<>>

\* for k := range mTags { if k != "host" { keys = append(keys, k) } },
\* the map iterated in the order `order`.
RECURSIVE CollectKeys(_)
CollectKeys(order) ==
    IF order = <<>> THEN <<>>
    ELSE IF Head(order) # host THEN <<Head(order)>> \o CollectKeys(Tail(order))
    ELSE CollectKeys(Tail(order))

\* for _, k := range keys { ... }: the loop over the sorted keys.
RECURSIVE AppendDimensions(_, _, _)
AppendDimensions(dims, keys, tags) ==
    IF keys = <<>> THEN dims
    ELSE IF Len(dims) >= MaxDimensions THEN dims
    ELSE IF tags[Head(keys)] = EmptyString THEN AppendDimensions(dims, Tail(keys), tags)
    ELSE AppendDimensions(
             Append(dims, [Name |-> Head(keys), Value |-> tags[Head(keys)]]),
             Tail(keys), tags)

\* BuildDimensions(mTags), the map iterated in the order `order`.
BuildDimensionsIter(tags, order) ==
    AppendDimensions(HostDimension(tags), SortStrings(CollectKeys(order)), tags)

BuildDimensions(tags) == BuildDimensionsIter(tags, SomeOrder(DOMAIN tags))

-----------------------------------------------------------------------------
(* The accumulators: statisticField and valueField *)

StatKinds == {statisticTypeMax, statisticTypeMin, statisticTypeSum, statisticTypeCount}

statisticField_addValue(f, sType, value) ==
    IF sType # statisticTypeNone
    THEN [f EXCEPT !.values = Put(f.values, sType, value)]
    ELSE f

statisticField_hasAllFields(f) ==
    /\ statisticTypeMin \in DOMAIN f.values
    /\ statisticTypeMax \in DOMAIN f.values
    /\ statisticTypeSum \in DOMAIN f.values
    /\ statisticTypeCount \in DOMAIN f.values

\* The datum of a complete statistic set.
StatisticDatum(f) ==
    [MetricName |-> Join(<<f.metricName, f.fieldName>>),
     Dimensions |-> BuildDimensions(f.tags),
     Timestamp |-> Ptr(f.timestamp),
     Value |-> Nil,
     StatisticValues |-> Ptr([Minimum |-> f.values[statisticTypeMin],
                              Maximum |-> f.values[statisticTypeMax],
                              Sum |-> f.values[statisticTypeSum],
                              SampleCount |-> f.values[statisticTypeCount]]),
     StorageResolution |-> Ptr(f.storageResolution)]

KindName(sType) ==
    CASE sType = statisticTypeMin -> <<"m", "i", "n">>
      [] sType = statisticTypeMax -> <<"m", "a", "x">>
      [] sType = statisticTypeSum -> <<"s", "u", "m">>
      [] sType = statisticTypeCount -> <<"c", "o", "u", "n", "t">>

\* The datum of one kind of an incomplete statistic set.
IndependentDatum(f, sType) ==
    [MetricName |-> Join(<<f.metricName, f.fieldName, KindName(sType)>>),
     Dimensions |-> BuildDimensions(f.tags),
     Timestamp |-> Ptr(f.timestamp),
     Value |-> Ptr(f.values[sType]),
     StatisticValues |-> Nil,
     StorageResolution |-> Nil]

\* for sType, value := range f.values { ... }, iterated in the order `order`.
RECURSIVE IndependentDatums(_, _)
IndependentDatums(f, order) ==
    IF order = <<>> THEN <<>>
    ELSE IF Head(order) \in StatKinds
         THEN <<IndependentDatum(f, Head(order))>> \o IndependentDatums(f, Tail(order))
         ELSE IndependentDatums(f, Tail(order))

\* statisticField.buildDatum, f.values iterated in the order `order`.
statisticField_buildDatum(f, order) ==
    IF statisticField_hasAllFields(f)
    THEN <<StatisticDatum(f)>>
    ELSE IndependentDatums(f, order)

\* A valueField that takes every value it is given, whatever its kind.
valueField_addValue_Unguarded(f, sType, value) == [f EXCEPT !.value = value]

valueField_addValue(f, sType, value) ==
    IF sType = statisticTypeNone THEN [f EXCEPT !.value = value] ELSE f

valueField_buildDatum(f) ==
    <<[MetricName |-> Join(<<f.metricName, f.fieldName>>),
       Dimensions |-> BuildDimensions(f.tags),
       Timestamp |-> Ptr(f.timestamp),
       Value |-> Ptr(f.value),
       StatisticValues |-> Nil,
       StorageResolution |-> Ptr(f.storageResolution)]>>

\* The cloudwatchField interface: dispatch on the accumulator's type.
addValue(f, sType, value) ==
    IF f.type = "statisticField"
    THEN statisticField_addValue(f, sType, value)
    ELSE valueField_addValue(f, sType, value)

\* Every sequence f.buildDatum() can return.
buildDatum(f) ==
    IF f.type = "statisticField"
    THEN {statisticField_buildDatum(f, o) : o \in Orders(DOMAIN f.values)}
    ELSE {valueField_buildDatum(f)}

-----------------------------------------------------------------------------
(* BuildMetricDatum *)

StorageResolutionOf(highRes) == IF highRes THEN 1 ELSE 60

\* The body of the loop over point.Fields() for the field k.
ProcessField(acc, buildStat, highRes, p, k) ==
    LET cv == convert(p.fields[k])
        st == getStatisticType(k)
    IN  IF ~cv.ok THEN acc
        ELSE IF ~buildStat \/ st.sType = statisticTypeNone
        THEN Put(acc, k, [type |-> "valueField",
                          metricName |-> p.name,
                          fieldName |-> k,
                          tags |-> p.tags,
                          timestamp |-> p.time,
                          value |-> cv.value,
                          storageResolution |-> StorageResolutionOf(highRes)])
        ELSE IF st.fieldName \notin DOMAIN acc
        THEN Put(acc, st.fieldName,
                 [type |-> "statisticField",
                  metricName |-> p.name,
                  fieldName |-> st.fieldName,
                  tags |-> p.tags,
                  timestamp |-> p.time,
                  values |-> Put(EmptyMap, st.sType, cv.value),
                  storageResolution |-> StorageResolutionOf(highRes)])
        ELSE Put(acc, st.fieldName, addValue(acc[st.fieldName], st.sType, cv.value))

\* for k, v := range point.Fields() { ... }, iterated in the order `order`.
RECURSIVE ProcessFields(_, _, _, _, _)
ProcessFields(acc, buildStat, highRes, p, order) ==
    IF order = <<>> THEN acc
    ELSE ProcessFields(ProcessField(acc, buildStat, highRes, p, Head(order)),
                       buildStat, highRes, p, Tail(order))

\* The accumulator map after the first loop.
BuildFields(buildStat, highRes, p, order) ==
    ProcessFields(EmptyMap, buildStat, highRes, p, order)

\* for _, f := range fields { datums = append(datums, f.buildDatum()...) }:
\* every sequence the second loop can build from the accumulators `keys`.
RECURSIVE FlattenFields(_, _)
FlattenFields(acc, keys) ==
    IF keys = {} THEN {<<>>}
    ELSE UNION {{d \o rest : d \in buildDatum(acc[k]),
                             rest \in FlattenFields(acc, keys \ {k})} : k \in keys}

\* One of them (for the bag of datums, which is the same for all).
RECURSIVE FlattenSome(_, _)
FlattenSome(acc, keys) ==
    IF keys = <<>> THEN <<>>
    ELSE LET f == acc[Head(keys)]
             d == IF f.type = "statisticField"
                  THEN statisticField_buildDatum(f, SomeOrder(DOMAIN f.values))
                  ELSE valueField_buildDatum(f)
         IN  d \o FlattenSome(acc, Tail(keys))

\* Every sequence BuildMetricDatum(buildStatistic, highResolutionMetrics, point)
\* can return, over all iteration orders of its maps.
BuildMetricDatum(buildStat, highRes, p) ==
    UNION {FlattenFields(BuildFields(buildStat, highRes, p, o),
                         DOMAIN BuildFields(buildStat, highRes, p, o))
           : o \in Orders(DOMAIN p.fields)}

-----------------------------------------------------------------------------
(* PartitionDatums *)

\* A partitioning that forgets the last, shorter chunk.
PartitionDatums_NoRemainder(size, d) ==
    [i \in 1..(Len(d) \div size) |-> SubSeq(d, size * (i - 1) + 1, size * i)]

PartitionDatums(size, d) ==
    LET numberOfPartitions ==
            IF Len(d) % size # 0 THEN Len(d) \div size + 1 ELSE Len(d) \div size
    IN  [i \in 1..numberOfPartitions |->
            LET start == size * (i - 1)
                end == IF size * i > Len(d) THEN Len(d) ELSE size * i
            IN  SubSeq(d, start + 1, end)]

-----------------------------------------------------------------------------
(* The metrics BuildMetricDatum is applied to *)

latency == <<"l", "a", "t", "e", "n", "c", "y">>

\* The field names: a plain field, the four statistic fields of the same
\* base name, and a statistic field of another base.
FieldTable ==
    <<[name |-> latency, base |-> latency, kind |-> statisticTypeNone],
      [name |-> latency \o s_min, base |-> latency, kind |-> statisticTypeMin],
      [name |-> latency \o s_max, base |-> latency, kind |-> statisticTypeMax],
      [name |-> latency \o s_sum, base |-> latency, kind |-> statisticTypeSum],
      [name |-> latency \o s_count, base |-> latency, kind |-> statisticTypeCount],
      [name |-> latency \o s_min \o s_max, base |-> latency \o s_min,
       kind |-> statisticTypeMax]>>

NumEnvelopes == 2

\* Name, tags and timestamp of the metrics.
Envelope(e) ==
    IF e = 1
    THEN [name |-> <<"h", "t", "t", "p">>,
          tags |-> (host :> <<"h", "1">> @@ <<"z", "o", "n", "e">> :> <<"z", "1">>
                    @@ <<"a", "z">> :> <<"a", "1">>),
          time |-> 1]
    ELSE [name |-> <<"c", "p", "u">>,
          tags |-> (<<"a", "z">> :> <<"a", "2">> @@ <<"z", "o", "n", "e">> :> EmptyString),
          time |-> 2]

\* A value of field i that convert accepts.
GoodValue(e, i) ==
    IF e = 1
    THEN CASE i = 1 -> [t |-> "float64", v |-> Fin(FALSE, 4200000, 1)]
           [] i = 2 -> [t |-> "int", v |-> 3]
           [] i = 3 -> [t |-> "int64", v |-> 250]
           [] i = 4 -> [t |-> "float64", v |-> Fin(FALSE, 1000000, 100)]
           [] i = 5 -> [t |-> "uint64", v |-> 7]
           [] OTHER -> [t |-> "bool", v |-> TRUE]
    ELSE CASE i = 1 -> [t |-> "int32", v |-> -5]
           [] i = 2 -> [t |-> "float64", v |-> Fin(TRUE, 1000000, -200)]
           [] i = 3 -> [t |-> "float64", v |-> MaxValue]
           [] i = 4 -> [t |-> "bool", v |-> FALSE]
           [] i = 5 -> [t |-> "time.Time", v |-> 1700]
           [] OTHER -> [t |-> "float64", v |-> MinPositive]

\* A value of field i that convert rejects.
BadValue(e, i) ==
    IF e = 1
    THEN CASE i = 1 -> [t |-> "float64", v |-> NaN]
           [] i = 2 -> [t |-> "float64", v |-> Inf(FALSE)]
           [] i = 3 -> [t |-> "float64", v |-> Fin(FALSE, 1000000, -200)]
           [] i = 4 -> [t |-> "float64", v |-> Fin(FALSE, 2000000, 108)]
           [] i = 5 -> [t |-> "string", v |-> "s"]
           [] OTHER -> [t |-> "float64", v |-> Inf(TRUE)]
    ELSE CASE i = 1 -> [t |-> "uint32", v |-> 5]
           [] i = 2 -> [t |-> "float64", v |-> Fin(FALSE, 8515919, -109)]
           [] i = 3 -> [t |-> "float64", v |-> Fin(FALSE, 1174272, 108)]
           [] i = 4 -> [t |-> "float32", v |-> 1]
           [] i = 5 -> [t |-> "nil", v |-> 0]
           [] OTHER -> [t |-> "float64", v |-> NaN]

FieldIndex == 1..Len(FieldTable)

\* The metric of envelope e whose field i is absent, good or bad as st[i] says.
MkPoint(e, st) ==
    LET present == {i \in FieldIndex : st[i] # "absent"}
        idx(k) == CHOOSE i \in present : FieldTable[i].name = k
    IN  [name |-> Envelope(e).name,
         tags |-> Envelope(e).tags,
         time |-> Envelope(e).time,
         fields |-> [k \in {FieldTable[i].name : i \in present} |->
                        IF st[idx(k)] = "good" THEN GoodValue(e, idx(k))
                        ELSE BadValue(e, idx(k))]]

Points ==
    {MkPoint(e, st) : e \in 1..NumEnvelopes,
                      st \in [FieldIndex -> {"absent", "good", "bad"}]}

\* The metrics of the calls after the first: no field, one plain field,
\* one statistic field, and a plain field with a statistic field of its name.
FollowStatuses ==
    {<<"absent", "absent", "absent", "absent", "absent", "absent">>,
     <<"good", "absent", "absent", "absent", "absent", "absent">>,
     <<"absent", "good", "absent", "absent", "absent", "absent">>,
     <<"good", "good", "absent", "absent", "absent", "absent">>}

FollowPoints == {MkPoint(e, st) : e \in 1..NumEnvelopes, st \in FollowStatuses}

\* Calls of BuildMetricDatum in one behaviour.
MaxCalls == 2

-----------------------------------------------------------------------------
(* BuildMetricDatum as a state machine *)

AggInit ==
    /\ buildStatistic \in BOOLEAN
    /\ highResolutionMetrics \in BOOLEAN
    /\ point \in Points
    /\ fields = EmptyMap
    /\ datums = EmptyBag
    /\ pc = "idle"
    /\ calls = 0

\* One call BuildMetricDatum(buildStatistic, highResolutionMetrics, point),
\* point.Fields() iterated in some order.
BuildMetricDatum_Call ==
    /\ pc = "idle"
    /\ \E order \in Orders(DOMAIN point.fields) :
          fields' = BuildFields(buildStatistic, highResolutionMetrics, point, order)
    /\ datums' = SeqToBag(FlattenSome(fields', SomeOrder(DOMAIN fields')))
    /\ pc' = "done"
    /\ calls' = calls + 1
    /\ UNCHANGED <<buildStatistic, highResolutionMetrics, point>>

\* The caller (the loop of Write over its metrics) passes the next metric.
NextMetric ==
    /\ pc = "done"
    /\ calls < MaxCalls
    /\ point' \in FollowPoints
    /\ pc' = "idle"
    /\ UNCHANGED <<buildStatistic, highResolutionMetrics, fields, datums, calls>>

\* The parts of the state a specification does not use.
AggOff ==
    /\ buildStatistic = FALSE /\ highResolutionMetrics = FALSE
    /\ point = MkPoint(1, [i \in FieldIndex |-> "absent"])
    /\ fields = EmptyMap /\ datums = EmptyBag /\ pc = "off" /\ calls = 0

DimOff == mTags = EmptyMap /\ dimensions = <<>> /\ dpc = "off"

PartOff == psize = 1 /\ pdatums = <<>> /\ partitions = <<>> /\ ppc = "off"

WriteOff ==
    /\ c = [Namespace |-> "", HighResolutionMetrics |-> FALSE, WriteStatistics |-> FALSE]
    /\ wmetrics = <<>> /\ wdatums = <<>> /\ wparts = <<>> /\ wi = 0
    /\ sent = <<>> /\ werr = Nil /\ wpc = "off"

Init == AggInit /\ DimOff /\ PartOff /\ WriteOff

Next ==
    \/ BuildMetricDatum_Call /\ UNCHANGED <<dimVars, partVars, writeVars>>
    \/ NextMetric /\ UNCHANGED <<dimVars, partVars, writeVars>>

Spec == Init /\ [][Next]_vars

-----------------------------------------------------------------------------
(* BuildDimensions as a state machine *)

\* The tag keys: "host" and twelve others, before and after it in byte order.
TagKeys ==
    {<<"a">>, <<"a", "z">>, <<"b">>, <<"c">>, <<"e">>, <<"h">>, <<"h", "o">>,
     host, <<"h", "o", "s", "t", "s">>, <<"i">>, <<"m">>, <<"n">>,
     <<"z", "o", "n", "e">>}

\* The tag maps have at most MaxFewTags tags, or all tags but at most
\* MaxMissingTags with a non-empty value.
MaxFewTags == 2
MaxMissingTags == 2

TagValue(k) == k \o <<"1">>

FewTagMaps ==
    UNION {[S -> {EmptyString, <<"v">>}] :
           S \in {T \in SUBSET TagKeys : Cardinality(T) <= MaxFewTags}}

ManyTagMaps ==
    UNION {{[k \in (TagKeys \ S) \cup E |-> IF k \in E THEN EmptyString ELSE TagValue(k)]
            : E \in SUBSET S}
           : S \in {T \in SUBSET TagKeys : Cardinality(T) <= MaxMissingTags}}

TagMaps == FewTagMaps \cup ManyTagMaps

Reverse(q) == [i \in 1..Len(q) |-> q[Len(q) + 1 - i]]

Rotate(q, n) == [i \in 1..Len(q) |-> q[((i + n - 1) % Len(q)) + 1]]

\* The iteration orders of a map with key set S that the model takes: one
\* order and its reverse, each started at every key.
IterOrders(S) ==
    LET o == SomeOrder(S)
    IN  IF S = {} THEN {<<>>}
        ELSE {Rotate(o, n) : n \in 0..(Len(o) - 1)}
             \cup {Rotate(Reverse(o), n) : n \in 0..(Len(o) - 1)}

DimInit ==
    /\ mTags \in TagMaps
    /\ dimensions = <<>>
    /\ dpc = "idle"

\* One call BuildDimensions(mTags), mTags iterated in some order.
BuildDimensions_Call ==
    /\ dpc = "idle"
    /\ \E order \in IterOrders(DOMAIN mTags) :
          dimensions' = BuildDimensionsIter(mTags, order)
    /\ dpc' = "done"
    /\ UNCHANGED mTags

InitDim == DimInit /\ AggOff /\ PartOff /\ WriteOff

NextDim ==
    \/ BuildDimensions_Call /\ UNCHANGED <<aggVars, partVars, writeVars>>

SpecDim == InitDim /\ [][NextDim]_vars

-----------------------------------------------------------------------------
(* PartitionDatums as a state machine *)

maxDatumsPerCall == 20

\* The sizes are 1..MaxPartSize and maxDatumsPerCall; the lists are all
\* lists of at most MaxPartLen datums out of NumDatumIds different ones,
\* and the lists 1, 2, ..., n of n <= MaxLongLen different datums.
MaxPartSize == 4
MaxPartLen == 5
NumDatumIds == 2
MaxLongLen == 45

PartSizes == (1..MaxPartSize) \cup {maxDatumsPerCall}

PartLists ==
    UNION {[1..n -> 1..NumDatumIds] : n \in 0..MaxPartLen}
    \cup {[i \in 1..n |-> i] : n \in 0..MaxLongLen}

PartInit ==
    /\ psize \in PartSizes
    /\ pdatums \in PartLists
    /\ partitions = <<>>
    /\ ppc = "idle"

\* One call PartitionDatums(psize, pdatums).
PartitionDatums_Call ==
    /\ ppc = "idle"
    /\ partitions' = PartitionDatums(psize, pdatums)
    /\ ppc' = "done"
    /\ UNCHANGED <<psize, pdatums>>

InitPart == PartInit /\ AggOff /\ DimOff /\ WriteOff

NextPart ==
    \/ PartitionDatums_Call /\ UNCHANGED <<aggVars, dimVars, writeVars>>

SpecPart == InitPart /\ [][NextPart]_vars

-----------------------------------------------------------------------------
(* CloudWatch.Write as a state machine *)

\* The metrics written: MaxWriteMetrics or fewer metrics of one plain field,
\* metric i with timestamp i, with or without one of the special metrics
\* before or after them.
MaxWriteMetrics == 41

Single(i) ==
    [name |-> <<"c", "p", "u">>,
     tags |-> Envelope(1).tags,
     time |-> i,
     fields |-> (latency :> GoodValue(1, 1))]

\* The four statistic fields; three of them; a plain field with a
\* statistic field of its name; a field that does not convert.
SpecialMetrics ==
    {MkPoint(1, st) : st \in
        {<<"absent", "good", "good", "good", "good", "absent">>,
         <<"absent", "good", "good", "good", "absent", "absent">>,
         <<"good", "good", "absent", "absent", "absent", "absent">>,
         <<"bad", "absent", "absent", "absent", "absent", "absent">>}}

WriteInputs ==
    LET singles == {[i \in 1..n |-> Single(i)] : n \in 0..MaxWriteMetrics}
    IN  singles
        \cup {<<m>> \o q : m \in SpecialMetrics, q \in singles}
        \cup {q \o <<m>> : m \in SpecialMetrics, q \in singles}

\* What PutMetricData returns: nil or an error.
TransportResults == {Nil, Ptr("Throttling"), Ptr("AccessDenied")}

WriteInit ==
    /\ c \in [Namespace : {"InfluxData/Telegraf"},
              HighResolutionMetrics : BOOLEAN,
              WriteStatistics : BOOLEAN]
    /\ wmetrics \in WriteInputs
    /\ wdatums = <<>>
    /\ wparts = <<>>
    /\ wi = 0
    /\ sent = <<>>
    /\ werr = Nil
    /\ wpc = "idle"

\* for _, m := range metrics { datums = append(datums, BuildMetricDatum(...)...) }:
\* every list of datums the loop can build.
RECURSIVE WriteDatums(_, _)
WriteDatums(cfg, metrics) ==
    IF metrics = <<>> THEN {<<>>}
    ELSE {d \o rest :
            d \in BuildMetricDatum(cfg.WriteStatistics, cfg.HighResolutionMetrics,
                                   Head(metrics)),
            rest \in WriteDatums(cfg, Tail(metrics))}

\* Write up to its first call of the transport: the datums are built and
\* partitioned.
Write_Begin ==
    /\ wpc = "idle"
    /\ wdatums' \in WriteDatums(c, wmetrics)
    /\ wparts' = PartitionDatums(maxDatumsPerCall, wdatums')
    /\ wi' = 1
    /\ wpc' = "loop"
    /\ UNCHANGED <<c, wmetrics, sent, werr>>

\* The PutMetricDataInput that WriteToCloudWatch builds.
PutMetricDataInput(cfg, partition) ==
    [MetricData |-> partition, Namespace |-> cfg.Namespace]

\* A transport that goes on to the next partition after an error.
Write_WriteToCloudWatch_GoesOn ==
    /\ wpc = "loop"
    /\ wi <= Len(wparts)
    /\ \E err \in TransportResults :
          /\ sent' = Append(sent, [params |-> PutMetricDataInput(c, wparts[wi]),
                                   err |-> err])
          /\ werr' = IF err # Nil THEN err ELSE werr
          /\ wi' = wi + 1
          /\ wpc' = "loop"
    /\ UNCHANGED <<c, wmetrics, wdatums, wparts>>

\* One turn of the loop over the partitions: c.WriteToCloudWatch(partition)
\* calls PutMetricData, which succeeds or fails; on an error Write returns it.
Write_WriteToCloudWatch ==
    /\ wpc = "loop"
    /\ wi <= Len(wparts)
    /\ \E err \in TransportResults :
          /\ sent' = Append(sent, [params |-> PutMetricDataInput(c, wparts[wi]),
                                   err |-> err])
          /\ IF err # Nil
             THEN werr' = err /\ wpc' = "done" /\ wi' = wi
             ELSE werr' = werr /\ wpc' = "loop" /\ wi' = wi + 1
    /\ UNCHANGED <<c, wmetrics, wdatums, wparts>>

\* The loop is over: return nil.
Write_Return ==
    /\ wpc = "loop"
    /\ wi > Len(wparts)
    /\ werr' = Nil
    /\ wpc' = "done"
    /\ UNCHANGED <<c, wmetrics, wdatums, wparts, wi, sent>>

InitWrite == WriteInit /\ AggOff /\ DimOff /\ PartOff

NextWrite ==
    \/ Write_Begin /\ UNCHANGED <<aggVars, dimVars, partVars>>
    \/ Write_WriteToCloudWatch /\ UNCHANGED <<aggVars, dimVars, partVars>>
    \/ Write_Return /\ UNCHANGED <<aggVars, dimVars, partVars>>

SpecWrite == InitWrite /\ [][NextWrite]_vars

-----------------------------------------------------------------------------
(* Properties of BuildMetricDatum *)

AllKinds == {statisticTypeMin, statisticTypeMax, statisticTypeSum, statisticTypeCount}

\* The base names of the statistic fields.
Bases == {FieldTable[i].base : i \in {j \in FieldIndex : FieldTable[j].kind # statisticTypeNone}}

\* The name of the field of kind `kind` of the base name `base`.
SuffixOf(kind) ==
    CASE kind = statisticTypeMin -> s_min
      [] kind = statisticTypeMax -> s_max
      [] kind = statisticTypeSum -> s_sum
      [] kind = statisticTypeCount -> s_count

StatFieldName(base, kind) == base \o SuffixOf(kind)

\* Field k is in the metric and its value converts.
Converts(k) == k \in DOMAIN point.fields /\ convert(point.fields[k]).ok

Converted(k) == convert(point.fields[k]).value

\* The kinds observed for a base name: those whose field converts.
ObservedKinds(base) == {kind \in AllKinds : Converts(StatFieldName(base, kind))}

\* "<metric>_<rest>"
DatumName(rest) == point.name \o <<"_">> \o rest

DatumSet == BagToSet(datums)

\* Number of datums in the output with a property.
CountNamed(name) ==
    LET named == {d \in DatumSet : d.MetricName = name}
        RECURSIVE Sum(_)
        Sum(S) == IF S = {} THEN 0
                  ELSE LET d == CHOOSE x \in S : TRUE
                       IN  CopiesIn(d, datums) + Sum(S \ {d})
    IN  Sum(named)

IsScalar(d) == d.Value # Nil /\ d.StatisticValues = Nil
IsStatisticSet(d) == d.StatisticValues # Nil /\ d.Value = Nil

\* The statistic set built from the four converted values of a base name.
StatisticSetOf(base) ==
    [Minimum |-> Converted(StatFieldName(base, statisticTypeMin)),
     Maximum |-> Converted(StatFieldName(base, statisticTypeMax)),
     Sum |-> Converted(StatFieldName(base, statisticTypeSum)),
     SampleCount |-> Converted(StatFieldName(base, statisticTypeCount))]

Called == pc = "done"

\* C1: with aggregation enabled, a base field whose _min, _max, _sum and
\* _count fields all convert yields exactly one datum named
\* "<metric>_<base>", which carries the statistic set of the four values,
\* and no scalar datum of that name, whatever other fields the metric has
\* (a field named <base> included).
C1_StatisticSetForCompleteBase ==
    (Called /\ buildStatistic) =>
        \A base \in Bases :
            ObservedKinds(base) = AllKinds =>
                /\ CountNamed(DatumName(base)) = 1
                /\ \A d \in DatumSet :
                      d.MetricName = DatumName(base) =>
                          /\ IsStatisticSet(d)
                          /\ d.StatisticValues = Ptr(StatisticSetOf(base))

\* C2: with aggregation enabled, a statistic-set datum is emitted for a
\* base field only if all four kinds were observed for it; when only
\* k < 4 kinds were observed, exactly k scalar datums are emitted for it,
\* one per observed kind, named "<metric>_<base>_<kind>", none for an
\* absent kind, and no statistic-set datum.
C2_PartialStatisticsAreIndependent ==
    (Called /\ buildStatistic) =>
        \A base \in Bases :
            LET obs == ObservedKinds(base)
            IN  /\ (\E d \in DatumSet :
                       d.MetricName = DatumName(base) /\ IsStatisticSet(d))
                       => obs = AllKinds
                /\ (obs # {} /\ obs # AllKinds) =>
                       /\ \A kind \in obs :
                             /\ CountNamed(DatumName(StatFieldName(base, kind))) = 1
                             /\ \A d \in DatumSet :
                                   d.MetricName = DatumName(StatFieldName(base, kind))
                                       => IsScalar(d)
                       /\ \A kind \in AllKinds \ obs :
                             CountNamed(DatumName(StatFieldName(base, kind))) = 0
                       /\ ~\E d \in DatumSet :
                             d.MetricName = DatumName(base) /\ IsStatisticSet(d)

\* C5: every datum built for a metric carries the metric's timestamp, the
\* dimension list of the metric's tags, and a storage resolution that is
\* set: 1 when highResolutionMetrics is true and 60 otherwise.
C5_DatumsShareTimestampDimensionsResolution ==
    Called =>
        \A d \in DatumSet :
            /\ d.Timestamp = Ptr(point.time)
            /\ d.Dimensions = BuildDimensions(point.tags)
            /\ d.StorageResolution = Ptr(IF highResolutionMetrics THEN 1 ELSE 60)

\* The value of datum d was converted from a field of the metric.
ValueFromConvertedField(d) ==
    IF IsScalar(d)
    THEN \E k \in DOMAIN point.fields :
            /\ Converts(k)
            /\ d.MetricName = DatumName(k)
            /\ d.Value = Ptr(Converted(k))
    ELSE \E base \in Bases :
            /\ ObservedKinds(base) = AllKinds
            /\ d.MetricName = DatumName(base)
            /\ d.StatisticValues = Ptr(StatisticSetOf(base))

\* C8: a field whose value fails conversion is skipped: it yields no datum
\* and is not counted as an observed kind (when one of the four statistic
\* fields of a base is rejected and the other three convert, three
\* independent scalar datums and no statistic set are emitted), and every
\* emitted value comes from a field that passed conversion.
C8_RejectedFieldsAreSkipped ==
    Called =>
        /\ \A k \in DOMAIN point.fields :
              ~Converts(k) =>
                  ~\E d \in DatumSet : IsScalar(d) /\ d.MetricName = DatumName(k)
        /\ \A d \in DatumSet : ValueFromConvertedField(d)
        /\ buildStatistic =>
              \A base \in Bases :
                  LET obs == ObservedKinds(base)
                  IN  (/\ Cardinality(obs) = 3
                       /\ \A kind \in AllKinds :
                             StatFieldName(base, kind) \in DOMAIN point.fields)
                      => /\ \A kind \in obs :
                               /\ CountNamed(DatumName(StatFieldName(base, kind))) = 1
                               /\ \A d \in DatumSet :
                                     d.MetricName = DatumName(StatFieldName(base, kind))
                                         => IsScalar(d)
                         /\ ~\E d \in DatumSet : IsStatisticSet(d)
                                                   /\ d.MetricName = DatumName(base)

\* Field k is represented by datum d: as its scalar value, or as the
\* component of its statistic set.
Represents(d, k) ==
    \/ /\ IsScalar(d)
       /\ d.MetricName = DatumName(k)
       /\ d.Value = Ptr(Converted(k))
    \/ \E i \in FieldIndex :
          /\ FieldTable[i].name = k
          /\ FieldTable[i].kind # statisticTypeNone
          /\ IsStatisticSet(d)
          /\ d.MetricName = DatumName(FieldTable[i].base)
          /\ LET sv == d.StatisticValues[1]
                 kind == FieldTable[i].kind
             IN  Converted(k) =
                     CASE kind = statisticTypeMin -> sv.Minimum
                       [] kind = statisticTypeMax -> sv.Maximum
                       [] kind = statisticTypeSum -> sv.Sum
                       [] kind = statisticTypeCount -> sv.SampleCount

\* C9: with aggregation enabled, every field whose value converts is
\* represented in the output, as its own scalar datum or as a component of
\* a statistic-set datum, also when the metric has both a plain field
\* <base> and statistic fields of <base>.
C9_EveryConvertedFieldIsRepresented ==
    (Called /\ buildStatistic) =>
        \A k \in DOMAIN point.fields :
            Converts(k) => \E d \in DatumSet : Represents(d, k)

\* C10: the bag of datums BuildMetricDatum returns is the same for every
\* iteration order of the metric's fields, in the first call and in every
\* later one: it is the bag built from the metric alone, in one fixed order.
C10_OutputIndependentOfOrderAndHistory ==
    Called =>
        LET acc == BuildFields(buildStatistic, highResolutionMetrics, point,
                               SomeOrder(DOMAIN point.fields))
        IN  datums = SeqToBag(FlattenSome(acc, SomeOrder(DOMAIN acc)))

\* A later call, on a metric with a plain field and a statistic field of
\* the same base name, after a call that left accumulators behind.
C10_Witness ==
    /\ Called /\ buildStatistic /\ calls = 2
    /\ Converts(latency) /\ Converts(StatFieldName(latency, statisticTypeMin))
    /\ datums # EmptyBag

-----------------------------------------------------------------------------
(* Properties of BuildDimensions *)

DimCalled == dpc = "done"

\* C3: no dimension BuildDimensions returns has an empty value, also when
\* the "host" key is present with an empty value.
C3_NoEmptyDimensionValue ==
    DimCalled => \A i \in 1..Len(dimensions) : dimensions[i].Value # EmptyString

\* The non-host keys with a non-empty value.
EligibleKeys == {k \in (DOMAIN mTags) \ {host} : mTags[k] # EmptyString}

HostCount == IF host \in DOMAIN mTags THEN 1 ELSE 0

\* C4: BuildDimensions returns at most 10 dimensions: the host dimension
\* first whenever the "host" key is present, then the non-host tags with a
\* non-empty value in strictly ascending byte order of their keys, the
\* smallest such keys, as many as fit in 10 dimensions with the host
\* dimension counted; whatever the iteration order of the map.
C4_DimensionsSortedAndCapped ==
    DimCalled =>
        LET n == Len(dimensions)
            names == {dimensions[i].Name : i \in (HostCount + 1)..n}
        IN  /\ n <= 10
            /\ n >= HostCount
            /\ HostCount = 1 =>
                  dimensions[1] = [Name |-> host, Value |-> mTags[host]]
            /\ \A i \in (HostCount + 1)..n :
                  /\ dimensions[i].Name \in EligibleKeys
                  /\ dimensions[i].Value = mTags[dimensions[i].Name]
            /\ \A i, j \in (HostCount + 1)..n :
                  i < j => StrLess(dimensions[i].Name, dimensions[j].Name)
            /\ \A k \in EligibleKeys \ names :
                  /\ n = 10
                  /\ \A m \in names : StrLess(m, k)
            /\ n < 10 => names = EligibleKeys

\* More than ten tags with a value, "host" among them: ten dimensions
\* are returned and a tag is left out.
C4_Witness ==
    /\ DimCalled
    /\ host \in DOMAIN mTags
    /\ Cardinality(EligibleKeys) > 10
    /\ Len(dimensions) = 10

-----------------------------------------------------------------------------
(* Properties of PartitionDatums *)

PartCalled == ppc = "done"

RECURSIVE Concat(_)
Concat(chunks) ==
    IF chunks = <<>> THEN <<>> ELSE Head(chunks) \o Concat(Tail(chunks))

\* C6: for every list and every size > 0 the chunks, concatenated in order,
\* are the list; no chunk is empty; every chunk but the last has `size`
\* elements and the last has 1..size; there are ceil(len/size) chunks,
\* none for the empty list.
C6_PartitionsAreContiguousChunks ==
    PartCalled =>
        LET n == Len(partitions)
        IN  /\ Concat(partitions) = pdatums
            /\ \A i \in 1..n :
                  /\ Len(partitions[i]) >= 1
                  /\ Len(partitions[i]) <= psize
                  /\ i < n => Len(partitions[i]) = psize
            /\ (n - 1) * psize < Len(pdatums)
            /\ Len(pdatums) <= n * psize
            /\ pdatums = <<>> => n = 0

\* 25 datums partitioned by 20: chunks of 20 and 5.
C6_Witness ==
    /\ PartCalled
    /\ psize = 20
    /\ Len(pdatums) = 25
    /\ Len(partitions) = 2
    /\ Len(partitions[1]) = 20
    /\ Len(partitions[2]) = 5

-----------------------------------------------------------------------------
(* Properties of CloudWatch.Write *)

Failed(j) == sent[j].err # Nil

\* C7: the transport is called at most once per partition, in partition
\* order, with at most 20 datums a call; when the call for partition i
\* fails Write returns that error at once, no later partition is sent and
\* the partitions before i have been sent; when no call fails every
\* partition is sent once and Write returns nil.
C7_WriteSubmitsInOrderAndStopsAtFirstError ==
    /\ Len(sent) <= Len(wparts)
    /\ \A j \in 1..Len(sent) :
          /\ sent[j].params.MetricData = wparts[j]
          /\ Len(sent[j].params.MetricData) <= 20
          /\ j < Len(sent) => ~Failed(j)
    /\ (sent # <<>> /\ Failed(Len(sent))) =>
          /\ wpc = "done"
          /\ werr = sent[Len(sent)].err
    /\ (wpc = "done" /\ (sent = <<>> \/ ~Failed(Len(sent)))) =>
          /\ werr = Nil
          /\ Len(sent) = Len(wparts)
          /\ Concat([j \in 1..Len(sent) |-> sent[j].params.MetricData]) = wdatums

\* Three partitions, the second call fails: two calls made, the error returned.
C7_Witness ==
    /\ wpc = "done"
    /\ Len(wparts) = 3
    /\ Len(sent) = 2
    /\ werr = Ptr("AccessDenied")

=============================================================================
